---- MODULE Spec2Model ----
(***************************************************************************)
(* A model of scripts/verify.py: the verifier of a problem package's       *)
(* problem.json, subtasks.json and solutions.json.                         *)
(*                                                                         *)
(* verify() is a straight pipeline; each stage is one action:              *)
(*   VerifyProblem -> VerifySubtasks -> VerifySolutions -> VerifyExistence *)
(*   -> Report                                                             *)
(* and an exception no stage catches ends the run in pc = "aborted".       *)
(*                                                                         *)
(* JSON values are records [t, s, n, items]: t is the Python type, s the   *)
(* text of a string as a sequence of tokens, n the number, items the       *)
(* elements of a list or the ordered <<key, value>> pairs of an object.    *)
(* Diagnostics are records [ns, msg, arg, num]: the namespace, the text of *)
(* the message without its arguments, and the arguments.                   *)
(***************************************************************************)
EXTENDS Integers, Sequences, FiniteSets, TLC

VARIABLES
    fs,         \* the package on disk: the files and directories verify.py reads
    env,        \* the environment variables and the outcome of the git lookup
    pc,         \* the position of verify()
    namespace,  \* the global `namespace`
    errors,     \* the global `errors`
    warnings,   \* the global `warnings`
    out,        \* what has been printed
    problem,    \* the global `problem`
    subtasks,   \* verify()'s local `subtasks`
    solutions   \* what verify_solutions returned

vars == <<fs, env, pc, namespace, errors, warnings, out, problem, subtasks, solutions>>

-----------------------------------------------------------------------------
(* JSON and Python values *)

NoneV == [t |-> "none", s |-> <<>>, n |-> 0, items |-> <<>>]
JStr(toks) == [t |-> "str", s |-> toks, n |-> 0, items |-> <<>>]
JInt(i) == [t |-> "int", s |-> <<>>, n |-> i, items |-> <<>>]
\* a float, in tenths
JFloat(tenths) == [t |-> "float", s |-> <<>>, n |-> tenths, items |-> <<>>]
JBool(b) == [t |-> "bool", s |-> <<>>, n |-> IF b THEN 1 ELSE 0, items |-> <<>>]
JList(xs) == [t |-> "list", s |-> <<>>, n |-> 0, items |-> xs]
JDict(pairs) == [t |-> "dict", s |-> <<>>, n |-> 0, items |-> pairs]
KV(key, val) == [k |-> key, v |-> val]

\* isinstance(v, string_types)
IsStr(v) == v.t = "str"
\* isinstance(v, int): bool is a subclass of int
IsInt(v) == v.t \in {"int", "bool"}
IsBool(v) == v.t = "bool"
IsFloat(v) == v.t = "float"
IsList(v) == v.t = "list"
IsDict(v) == v.t = "dict"
\* v == 'lit' for a string literal
StrEq(v, lit) == IsStr(v) /\ v.s = <<lit>>

\* key in d, d[key], and the keys of d in insertion order
HasKey(d, key) == \E i \in 1..Len(d.items) : d.items[i].k = key
Get(d, key) == d.items[CHOOSE i \in 1..Len(d.items) : d.items[i].k = key].v
Keys(d) == [i \in 1..Len(d.items) |-> d.items[i].k]
KeySet(d) == {d.items[i].k : i \in 1..Len(d.items)}

Range(f) == {f[i] : i \in DOMAIN f}

\* the list [i \in 1..n |-> e], its elements evaluated once
List(f) == <<>> \o f
\* F applied to the value of x, x evaluated once
With(x, F(_)) == CHOOSE r \in {F(v) : v \in {x}} : TRUE

RECURSIVE Concat(_)
Concat(seqs) == IF seqs = <<>> THEN <<>> ELSE Head(seqs) \o Concat(Tail(seqs))

-----------------------------------------------------------------------------
(* Program constants *)

valid_problem_types == {"Batch", "Communication", "OutputOnly", "TwoSteps"}
model_solution_verdict == "model_solution"
valid_verdicts ==
    {model_solution_verdict, "correct", "time_limit", "memory_limit", "incorrect",
     "runtime_error", "failed", "time_limit_and_runtime_error", "partially_correct"}
necessary_files ==
    <<"checker/testlib.h", "checker/Makefile", "checker/checker.cpp",
      "validator/testlib.h", "validator/Makefile",
      "gen/testlib.h", "gen/Makefile", "gen/data">>
java_enabled == TRUE
pascal_enabled == FALSE
grader_necessary_files ==
    <<"grader/cpp/PROBLEM_NAME.h", "grader/cpp/grader.cpp">>
    \o (IF java_enabled THEN <<"grader/java/grader.java">> ELSE <<>>)
    \o (IF pascal_enabled THEN <<"grader/pas/grader.pas">> ELSE <<>>)
manager_necessary_files == <<"grader/Makefile", "grader/manager.cpp">>

-----------------------------------------------------------------------------
(* Diagnostics *)

\* error(description) and warning(description): the entry appended to the list
Diag(ns, msg, arg, num) == [ns |-> ns, msg |-> msg, arg |-> arg, num |-> num]

\* the entries of a list of diagnostics with a given message
WithMsg(ds, msg) == SelectSeq(ds, LAMBDA d : d.msg = msg)
CountMsg(ds, msg) == Len(WithMsg(ds, msg))

-----------------------------------------------------------------------------
(* Loader *)

\* check_keys: one error per missing key, and KeyError if any is missing
check_keys(ns, data, required_keys, json_name) ==
    LET missing == SelectSeq(required_keys, LAMBDA key : ~HasKey(data, key))
    IN  [errs |-> List([i \in 1..Len(missing) |->
                          IF json_name # ""
                          THEN Diag(ns, "is required in", <<missing[i], json_name>>, 0)
                          ELSE Diag(ns, "is required", <<missing[i]>>, 0)]),
         raised |-> missing # <<>>]

\* error_on_duplicate_keys with data[key] = value out of the else: the last value
\* of a key kept
DropDuplicateKeys_lastWins(ordered_pairs) ==
    LET seen(i) == \E j \in 1..(i - 1) : ordered_pairs[j].k = ordered_pairs[i].k
        last(i) == CHOOSE j \in i..Len(ordered_pairs) :
                      /\ ordered_pairs[j].k = ordered_pairs[i].k
                      /\ \A l \in (j + 1)..Len(ordered_pairs) :
                            ordered_pairs[l].k # ordered_pairs[i].k
        data[i \in 0..Len(ordered_pairs)] ==
            IF i = 0 THEN <<>>
            ELSE IF seen(i) THEN data[i - 1]
            ELSE Append(data[i - 1], KV(ordered_pairs[i].k, ordered_pairs[last(i)].v))
        errs[i \in 0..Len(ordered_pairs)] ==
            IF i = 0 THEN <<>>
            ELSE IF seen(i) THEN Append(errs[i - 1], ordered_pairs[i].k) ELSE errs[i - 1]
    IN  [data |-> data[Len(ordered_pairs)], dups |-> errs[Len(ordered_pairs)]]

\* error_on_duplicate_keys: the pairs folded into a mapping in encounter order;
\* a key seen before is reported and its value dropped
DropDuplicateKeys(ordered_pairs) ==
    LET seen(i) == \E j \in 1..(i - 1) : ordered_pairs[j].k = ordered_pairs[i].k
        data[i \in 0..Len(ordered_pairs)] ==
            IF i = 0 THEN <<>>
            ELSE IF seen(i) THEN data[i - 1] ELSE Append(data[i - 1], ordered_pairs[i])
        errs[i \in 0..Len(ordered_pairs)] ==
            IF i = 0 THEN <<>>
            ELSE IF seen(i) THEN Append(errs[i - 1], ordered_pairs[i].k) ELSE errs[i - 1]
    IN  [data |-> data[Len(ordered_pairs)], dups |-> errs[Len(ordered_pairs)]]

error_on_duplicate_keys(ns, ordered_pairs) ==
    With(DropDuplicateKeys(ordered_pairs), LAMBDA r :
         [data |-> JDict(r.data),
          errs |-> List([i \in 1..Len(r.dups) |-> Diag(ns, "duplicate key", <<r.dups[i]>>, 0)])])

\* json.load(f, object_pairs_hook=error_on_duplicate_keys): the hook runs on every
\* object of the document as its parse completes, the inner objects first
RECURSIVE json_load(_, _)
json_load(ns, raw) ==
    IF IsDict(raw)
    THEN With(List([i \in 1..Len(raw.items) |-> json_load(ns, raw.items[i].v)]),
              LAMBDA inner :
         With(error_on_duplicate_keys(
                  ns, List([i \in 1..Len(raw.items) |-> KV(raw.items[i].k, inner[i].data)])),
              LAMBDA hooked :
              [data |-> hooked.data,
               errs |-> Concat([i \in 1..Len(raw.items) |-> inner[i].errs]) \o hooked.errs]))
    ELSE IF IsList(raw)
    THEN With(List([i \in 1..Len(raw.items) |-> json_load(ns, raw.items[i])]),
              LAMBDA inner :
              [data |-> JList(List([i \in 1..Len(raw.items) |-> inner[i].data])),
               errs |-> Concat([i \in 1..Len(raw.items) |-> inner[i].errs])])
    ELSE [data |-> raw, errs |-> <<>>]

\* load_data: file is [status, doc], status "missing" (IOError), "invalid"
\* (ValueError) or "ok"; doc is the document as written, an object
load_data(ns, file, required_keys) ==
    IF file.status = "missing"
    THEN [data |-> NoneV, errs |-> <<Diag(ns, "file does not exists", <<>>, 0)>>]
    ELSE IF file.status = "invalid"
    THEN [data |-> NoneV, errs |-> <<Diag(ns, "invalid json", <<>>, 0)>>]
    ELSE With(json_load(ns, file.doc), LAMBDA loaded :
         With(check_keys(ns, loaded.data, required_keys, ""), LAMBDA keys :
              [data |-> IF keys.raised THEN NoneV ELSE loaded.data,
               errs |-> loaded.errs \o keys.errs]))

\* is_ignored: file_name ends with '.exe', '.class' or '~'
EndsWith(file_name, ending) ==
    <<file_name, ending>> \in
        {<<"old.exe", ".exe">>, <<"Main.class", ".class">>, <<"v.cpp~", "~">>,
         <<"sol.cpp~", "~">>}
is_ignored(file_name) == \E ending \in {".exe", ".class", "~"} : EndsWith(file_name, ending)

\* get_list_of_files without the filter
get_list_of_files_unfiltered(directory) == directory

\* get_list_of_files, as a set: its callers only build sets from it
get_list_of_files(directory) == {file \in directory : ~is_ignored(file)}

-----------------------------------------------------------------------------
(* Text: a string is a sequence of tokens, " " the blank *)

RECURSIVE LStrip(_)
LStrip(toks) == IF toks # <<>> /\ Head(toks) = " " THEN LStrip(Tail(toks)) ELSE toks
RECURSIVE RStrip(_)
RStrip(toks) ==
    IF toks # <<>> /\ toks[Len(toks)] = " " THEN RStrip(SubSeq(toks, 1, Len(toks) - 1)) ELSE toks
\* str.strip()
Strip(toks) == RStrip(LStrip(toks))
\* str.replace(tok, '')
Remove(toks, tok) == SelectSeq(toks, LAMBDA t : t # tok)
\* str.split(' ')[0]: the text before the first blank
FirstWord(toks) ==
    LET blanks == {i \in 1..Len(toks) : toks[i] = " "}
    IN  IF blanks = {} THEN toks
        ELSE SubSeq(toks, 1, (CHOOSE i \in blanks : \A j \in blanks : i <= j) - 1)
\* '.' in text
HasDot(toks) == \E i \in 1..Len(toks) : toks[i] \in {"v.cpp", "w.py", "gone.cpp", "testlib.h"}

\* s[:-4] of the output of basename, over the remote names of the model
DropLast4(s) ==
    CASE s = "prob.git" -> "prob"
      [] s = "other.git" -> "other"
      [] s = "prob" -> ""
      [] OTHER -> ""

subtask_placeholder_var == "subtask"
subtask_placeholder_substitute == "___SUBTASK_PLACEHOLDER_SUBSTITUTE___"

\* str.format(subtask=substitute): the replacement fields are taken left to right;
\* exc names the exception the first bad field raises, "" when none does
RECURSIVE Format(_)
Format(toks) ==
    IF toks = <<>> THEN [exc |-> "", key |-> "", text |-> <<>>]
    ELSE With(Format(Tail(toks)), LAMBDA rest :
         LET tok == Head(toks)
             lit(t) == [rest EXCEPT !.text = <<t>> \o @]
         IN  CASE tok = "{subtask}" -> IF rest.exc = "" THEN lit(subtask_placeholder_substitute) ELSE rest
               [] tok = "{other}" -> [exc |-> "KeyError", key |-> "other", text |-> <<>>]
               [] tok \in {"{}", "{0}"} -> [exc |-> "IndexError", key |-> "", text |-> <<>>]
               [] tok \in {"{", "}"} -> [exc |-> "ValueError", key |-> "", text |-> <<>>]
               [] tok = "{{" -> IF rest.exc = "" THEN lit("{") ELSE rest
               [] tok = "}}" -> IF rest.exc = "" THEN lit("}") ELSE rest
               [] OTHER -> IF rest.exc = "" THEN lit(tok) ELSE rest)

-----------------------------------------------------------------------------
(* Problem verifier *)

\* memory & (memory - 1) == 0, for memory >= 1
RECURSIVE IsPowerOfTwo(_)
IsPowerOfTwo(m) == m = 1 \/ (m > 1 /\ m % 2 = 0 /\ IsPowerOfTwo(m \div 2))

NoDiags == [errs |-> <<>>, warns |-> <<>>, raised |-> FALSE]

\* verify.py:111-118: the name and the git project name
check_name(ns, p) ==
    IF ~IsStr(Get(p, "name"))
    THEN [NoDiags EXCEPT !.errs = <<Diag(ns, "name is not a string", <<>>, 0)>>]
    ELSE IF env.WEB_TERMINAL # "true"
    THEN IF env.git = "fail"
         THEN [NoDiags EXCEPT !.raised = TRUE]   \* CalledProcessError
         ELSE IF Get(p, "name").s # <<DropLast4(env.git)>>
         THEN [NoDiags EXCEPT !.warns =
                 <<Diag(ns, "problem name and git project name are not the same", <<>>, 0)>>]
         ELSE NoDiags
    ELSE NoDiags

\* verify.py:123-140: the title and the first non-blank line of the statement
check_statement(ns, p) ==
    IF ~fs.statement.exists
    THEN <<Diag(ns, "statement does not exists", <<>>, 0)>>
    ELSE LET lines == fs.statement.lines
             nonblank == {i \in 1..Len(lines) : Strip(lines[i]) # <<>>}
         IN  IF nonblank = {}
             THEN <<Diag(ns, "statement is empty", <<>>, 0)>>
             ELSE LET first_line == lines[CHOOSE i \in nonblank : \A j \in nonblank : i <= j]
                      statement_title == Strip(Remove(first_line, "#"))
                      title == Get(p, "title")
                  IN  IF Head(Strip(first_line)) # "#"
                      THEN <<Diag(ns, "statement does not start with a title", <<>>, 0)>>
                      ELSE IF ~(IsStr(title) /\ title.s = statement_title)
                      THEN <<Diag(ns, "title does not match title in statement",
                                  title.s \o <<"|">> \o statement_title, 0)>>
                      ELSE <<>>

\* verify.py:142-166: type, has_grader, has_manager, time_limit, memory_limit
check_fields(ns, p) ==
    LET type == Get(p, "type")
        typeErr ==
            IF ~IsStr(type) \/ ~(Len(type.s) = 1 /\ type.s[1] \in valid_problem_types)
            THEN <<Diag(ns, "type should be one of", <<>>, 0)>> ELSE <<>>
        grader ==
            IF ~HasKey(p, "has_grader") THEN NoDiags
            ELSE IF ~IsBool(Get(p, "has_grader"))
            THEN [NoDiags EXCEPT !.errs = <<Diag(ns, "has_grader should be a boolean", <<>>, 0)>>]
            ELSE IF StrEq(type, "OutputOnly") /\ Get(p, "has_grader").n = 1
            THEN [NoDiags EXCEPT !.warns =
                    <<Diag(ns, "output only problems could not have grader", <<>>, 0)>>]
            ELSE NoDiags
        manager ==
            IF ~HasKey(p, "has_manager") THEN NoDiags
            ELSE IF ~IsBool(Get(p, "has_manager"))
            THEN [NoDiags EXCEPT !.errs = <<Diag(ns, "has_manager should be a boolean", <<>>, 0)>>]
            ELSE [NoDiags EXCEPT !.warns =
                    (IF StrEq(type, "Communication") /\ Get(p, "has_manager").n = 0
                     THEN <<Diag(ns, "communication problems must have manager", <<>>, 0)>>
                     ELSE <<>>)
                    \o (IF StrEq(type, "OutputOnly") /\ Get(p, "has_manager").n = 1
                        THEN <<Diag(ns, "output only problems could not have manager", <<>>, 0)>>
                        ELSE <<>>)]
        time_limit == Get(p, "time_limit")
        timeErr ==
            IF ~IsFloat(time_limit) \/ time_limit.n < 5
            THEN <<Diag(ns, "time_limit should be a number greater or equal to 0.5", <<>>, 0)>>
            ELSE <<>>
        memory == Get(p, "memory_limit")
        memErr ==
            IF ~IsInt(memory) \/ memory.n < 1 \/ ~IsPowerOfTwo(memory.n)
            THEN <<Diag(ns, "memory_limit should be an integer that is a power of two", <<>>, 0)>>
            ELSE <<>>
    IN  [errs |-> typeErr \o grader.errs \o manager.errs \o timeErr \o memErr,
         warns |-> grader.warns \o manager.warns]

\* verify_problem: [problem, errs, warns, raised]; raised when the git lookup fails
verify_problem(ns) ==
    With(load_data(ns, fs.problemJson,
                   <<"name", "title", "type", "time_limit", "memory_limit">>),
         LAMBDA loaded :
         IF loaded.data = NoneV
         THEN [problem |-> NoneV, errs |-> loaded.errs, warns |-> <<>>, raised |-> FALSE]
         ELSE LET p == loaded.data
                  name == check_name(ns, p)
                  titleErr == IF ~IsStr(Get(p, "title"))
                              THEN <<Diag(ns, "title is not a string", <<>>, 0)>> ELSE <<>>
                  fields == check_fields(ns, p)
              IN  IF name.raised
                  THEN [problem |-> NoneV, errs |-> loaded.errs \o name.errs,
                        warns |-> name.warns, raised |-> TRUE]
                  ELSE [problem |-> p,
                        errs |-> loaded.errs \o name.errs \o titleErr \o fields.errs,
                        warns |-> name.warns \o check_statement(ns, p) \o fields.warns,
                        raised |-> FALSE])

-----------------------------------------------------------------------------
(* Subtask verifier *)

k_glob == "global_validators"
k_sub == "subtask_sensitive_validators"

\* verify.py:183
validator_files == get_list_of_files(fs.validatorDir) \ {"testlib.h", "Makefile"}

\* check_validator_key: [errs, used], used the names added to used_validators.
\* parName is "" for the top level of subtasks.json
check_validator_key(ns, parent, key, name, parName) ==
    IF ~HasKey(parent, key) THEN [errs |-> <<>>, used |-> {}]
    ELSE LET validators_list == Get(parent, key)
             n == Len(validators_list.items)
             cmd(i) == FirstWord(validators_list.items[i].s)
             onDisk(i) == Len(cmd(i)) = 1 /\ cmd(i)[1] \in validator_files
             entryErrs(i) ==
                 IF ~IsStr(validators_list.items[i])
                 THEN <<Diag(ns, "validator is not a string", <<name, parName>>, i)>>
                 ELSE IF HasDot(cmd(i)) /\ ~onDisk(i)
                 THEN <<Diag(ns, "File not found for validator",
                             <<name>> \o cmd(i) \o <<parName>>, 0)>>
                 ELSE <<>>
         IN  IF ~IsList(validators_list)
             THEN [errs |-> <<Diag(ns, "is not an array", <<key, parName>>, 0)>>, used |-> {}]
             ELSE [errs |-> Concat([i \in 1..n |-> entryErrs(i)]),
                   used |-> {cmd(i)[1] : i \in {j \in 1..n :
                                IsStr(validators_list.items[j]) /\ HasDot(cmd(j)) /\ onDisk(j)}}]

\* verify.py:211-220, one entry of subtask_sensitive_validators: [errs, raised];
\* only KeyError is caught
check_placeholder(ns, subtask_sensitive_validator) ==
    IF ~IsStr(subtask_sensitive_validator)
    THEN [errs |-> <<>>, raised |-> TRUE]       \* AttributeError: no format()
    ELSE With(Format(subtask_sensitive_validator.s), LAMBDA f :
         IF f.exc = "KeyError"
         THEN [errs |-> <<Diag(ns, "contains unknown placeholder",
                               subtask_sensitive_validator.s \o <<f.key>>, 0)>>,
               raised |-> FALSE]
         ELSE IF f.exc # ""
         THEN [errs |-> <<>>, raised |-> TRUE]   \* IndexError, ValueError
         ELSE IF \A i \in 1..Len(f.text) : f.text[i] # subtask_placeholder_substitute
         THEN [errs |-> <<Diag(ns, "does not contain the subtask placeholder",
                               subtask_sensitive_validator.s \o <<subtask_placeholder_var>>, 0)>>,
               raised |-> FALSE]
         ELSE [errs |-> <<>>, raised |-> FALSE])

\* verify.py:211-220, the loop: it stops at the first entry that raises. A value
\* that is no list is an integer here, and iterating it raises TypeError
check_placeholders(ns, subtasks_data) ==
    IF ~HasKey(subtasks_data, k_sub) THEN [errs |-> <<>>, raised |-> FALSE]
    ELSE IF ~IsList(Get(subtasks_data, k_sub)) THEN [errs |-> <<>>, raised |-> TRUE]
    ELSE With(Get(subtasks_data, k_sub).items, LAMBDA entries :
         With(List([i \in 1..Len(entries) |-> check_placeholder(ns, entries[i])]),
              LAMBDA each :
              LET bad == {i \in 1..Len(entries) : each[i].raised}
                  last == IF bad = {} THEN Len(entries)
                          ELSE (CHOOSE i \in bad : \A j \in bad : i <= j) - 1
              IN  [errs |-> Concat([i \in 1..last |-> each[i].errs]), raised |-> bad # {}]))

\* x in indexes, for an integer x
InIndexes(x, indexes) == \E v \in indexes : IsInt(v) /\ v.n = x

\* counted_score with the samples branch of verify.py:249-251 left out
counted_score_samplesToo(name, score) ==
    IF ~IsInt(score) \/ score.n < 0 THEN 0 ELSE score.n

\* verify.py:247-253: what a subtask adds to score_sum
counted_score(name, score) ==
    IF ~IsInt(score) \/ score.n < 0 THEN 0
    ELSE IF name = "samples" THEN 0
    ELSE score.n

\* verify.py:235-255, one subtask: its errors, the index it adds to indexes (a
\* set of at most one value), what it adds to score_sum and to used_validators
check_subtask(ns, name, data) ==
    LET skip(errs) == [errs |-> errs, index |-> {}, score |-> 0, used |-> {}]
    IN  IF ~IsDict(data) THEN skip(<<Diag(ns, "invalid data in", <<name>>, 0)>>)
        ELSE With(check_keys(ns, data, <<"index", "score">>, name), LAMBDA keys :
             IF keys.raised THEN skip(keys.errs)
             ELSE With(check_validator_key(ns, data, "validators", "subtask", name),
                       LAMBDA vals :
                  LET score == Get(data, "score")
                      bad == ~IsInt(score) \/ score.n < 0
                  IN  [errs |->
                         (IF bad
                          THEN <<Diag(ns, "score should be a non-negative integer in subtask",
                                      <<name>>, 0)>>
                          ELSE IF name = "samples" /\ score.n # 0
                          THEN <<Diag(ns, "samples subtask score is non-zero", <<>>, 0)>>
                          ELSE <<>>)
                         \o vals.errs,
                       index |-> {Get(data, "index")},
                       score |-> counted_score(name, score),
                       used |-> vals.used]))

RECURSIVE SumSeq(_)
SumSeq(xs) == IF xs = <<>> THEN 0 ELSE Head(xs) + SumSeq(Tail(xs))

\* verify.py:263-265
missing_indexes(ns, n, hasSamples, indexes) ==
    With(SelectSeq([i \in 1..n |-> i - 1],
                   LAMBDA i : ~InIndexes(i + (IF hasSamples THEN 0 ELSE 1), indexes)),
         LAMBDA miss :
         List([j \in 1..Len(miss) |-> Diag(ns, "missing index in subtask indexes", <<>>, miss[j])]))

\* verify_subtasks: [subtasks, errs, unused, raised]. unused is the set the
\* warnings of verify.py:257-258 are made of, in the order the set is iterated in
verify_subtasks(ns) ==
    LET result(st, errs, unused, raised) ==
            [subtasks |-> st, errs |-> errs, unused |-> unused, raised |-> raised]
    IN
    With(load_data(ns, fs.subtasksJson, <<"subtasks">>), LAMBDA loaded :
    IF loaded.data = NoneV THEN result(NoneV, loaded.errs, {}, FALSE)
    ELSE IF ~HasKey(loaded.data, k_glob) /\ ~HasKey(loaded.data, k_sub)
    THEN result(NoneV,
                loaded.errs \o <<Diag(ns, "Neither is present", <<k_glob, k_sub>>, 0)>>,
                {}, FALSE)
    ELSE
    With(check_validator_key(ns, loaded.data, k_glob, "global", ""), LAMBDA glob :
    With(check_validator_key(ns, loaded.data, k_sub, "subtask-sensitive", ""), LAMBDA sens :
    With(check_placeholders(ns, loaded.data), LAMBDA holders :
    With(loaded.errs \o glob.errs \o sens.errs \o holders.errs, LAMBDA errs1 :
    IF holders.raised THEN result(NoneV, errs1, {}, TRUE)
    ELSE IF problem = NoneV THEN result(NoneV, errs1, {}, TRUE)   \* TypeError
    ELSE
    With(Get(loaded.data, "subtasks"), LAMBDA st :
    With(List([i \in 1..Len(st.items) |-> check_subtask(ns, st.items[i].k, st.items[i].v)]),
         LAMBDA each :
    LET wantSamples == ~StrEq(Get(problem, "type"), "OutputOnly")
        samples == IF wantSamples THEN check_keys(ns, st, <<"samples">>, "")
                   ELSE [errs |-> <<>>, raised |-> TRUE]
        hasSamples == wantSamples /\ ~samples.raised
        n == Len(st.items)
        indexes == UNION {each[i].index : i \in 1..n}
        score_sum == SumSeq([i \in 1..n |-> each[i].score])
        used_validators == glob.used \cup sens.used \cup UNION {each[i].used : i \in 1..n}
    IN  result(st,
               errs1 \o samples.errs \o Concat([i \in 1..n |-> each[i].errs])
                 \o (IF score_sum # 100
                     THEN <<Diag(ns, "sum of scores is", <<>>, score_sum)>> ELSE <<>>)
                 \o missing_indexes(ns, n, hasSamples, indexes),
               validator_files \ used_validators, FALSE))))))))

-----------------------------------------------------------------------------
(* Solution verifier *)

\* verify_verdict: the error, if any; the verdict is verified when there is none
verify_verdict(ns, verdict, key_name) ==
    IF ~IsStr(verdict) \/ ~(Len(verdict.s) = 1 /\ verdict.s[1] \in valid_verdicts)
    THEN <<Diag(ns, "verdict should be one of", key_name, 0)>>
    ELSE <<>>

\* verify.py:311-320: the errors of one solution's `except`
check_except(ns, solution, data, subtask_set) ==
    IF ~HasKey(data, "except") THEN <<>>
    ELSE LET exceptions == Get(data, "except")
             one(i) ==
                 LET subtask_verdict == exceptions.items[i].k
                 IN  IF ~HasKey(subtask_set, subtask_verdict)
                     THEN <<Diag(ns, "subtask is not defined and cannot be used in except",
                                 <<subtask_verdict>>, 0)>>
                     ELSE verify_verdict(ns, exceptions.items[i].v,
                                         <<solution, "except", subtask_verdict>>)
         IN  IF ~IsDict(exceptions)
             THEN <<Diag(ns, "invalid except format in", <<solution>>, 0)>>
             ELSE Concat([i \in 1..Len(exceptions.items) |-> one(i)])

\* more_than_one with `is None` for `is not None`
more_than_one_onFirst(ns, isModel, model_solution) ==
    IF isModel /\ model_solution = ""
    THEN <<Diag(ns, "there is more than one model solutions", <<>>, 0)>> ELSE <<>>

\* verify.py:306-308: a second model solution
more_than_one(ns, isModel, model_solution) ==
    IF isModel /\ model_solution # ""
    THEN <<Diag(ns, "there is more than one model solutions", <<>>, 0)>> ELSE <<>>

\* verify.py:292-320, one pass of the loop on the state [errs, model_solution,
\* solution_files, raised]; model_solution is "" for None. `'verdict' in data`
\* is False for a list and raises TypeError for a number
check_solution(ns, st, solution, data, subtask_set) ==
    IF st.raised THEN st
    ELSE IF solution \notin st.solution_files
    THEN [st EXCEPT !.errs = Append(@, Diag(ns, "does not exists", <<solution>>, 0))]
    ELSE LET st1 == [st EXCEPT !.solution_files = @ \ {solution}]
         IN  IF ~IsDict(data) /\ ~IsList(data) THEN [st1 EXCEPT !.raised = TRUE]
             ELSE IF IsList(data) \/ ~HasKey(data, "verdict")
             THEN [st1 EXCEPT !.errs =
                     Append(@, Diag(ns, "is required in", <<"verdict", solution>>, 0))]
             ELSE LET vErr == verify_verdict(ns, Get(data, "verdict"), <<solution>>)
                      isModel == vErr = <<>> /\ StrEq(Get(data, "verdict"), model_solution_verdict)
                  IN  [st1 EXCEPT
                         !.errs = @ \o vErr
                                  \o more_than_one(ns, isModel, st.model_solution)
                                  \o check_except(ns, solution, data, subtask_set),
                         !.model_solution = IF isModel THEN solution ELSE @]

\* verify_solutions: [solutions, errs, unrepresented, raised]. unrepresented is
\* the set the errors of verify.py:325-326 are made of, in the order the set is
\* iterated in
verify_solutions(ns, subtask_set) ==
    With(load_data(ns, fs.solutionsJson, <<>>), LAMBDA loaded :
    IF loaded.data = NoneV \/ subtask_set = NoneV
    THEN [solutions |-> loaded.data, errs |-> loaded.errs, unrepresented |-> {},
          raised |-> FALSE]
    ELSE LET sols == loaded.data
             loop[i \in 0..Len(sols.items)] ==
                 IF i = 0
                 THEN [errs |-> <<>>, model_solution |-> "",
                       solution_files |-> get_list_of_files(fs.solutionDir),
                       raised |-> FALSE]
                 ELSE With(loop[i - 1], LAMBDA st :
                           check_solution(ns, st, sols.items[i].k, sols.items[i].v,
                                          subtask_set))
         IN  With(loop[Len(sols.items)], LAMBDA end :
             IF end.raised
             THEN [solutions |-> NoneV, errs |-> loaded.errs \o end.errs,
                   unrepresented |-> {}, raised |-> TRUE]
             ELSE [solutions |-> sols,
                   errs |-> loaded.errs \o end.errs
                            \o (IF end.model_solution = ""
                                THEN <<Diag(ns, "there is no model solution", <<>>, 0)>>
                                ELSE <<>>),
                   unrepresented |-> end.solution_files, raised |-> FALSE]))

-----------------------------------------------------------------------------
(* Existence checker and reporter *)

\* verify_existence: the error is the path itself
verify_existence(ns, files) ==
    LET absent == SelectSeq(files, LAMBDA file : file \notin fs.present)
    IN  [i \in 1..Len(absent) |-> Diag(ns, absent[i], <<>>, 0)]

Printed(color, text) == [color |-> color, text |-> text]
Verified == Diag("", "verified.", <<>>, 0)
VerifiedWithWarnings == Diag("", "verified, but there are some warnings.", <<>>, 0)

\* report, with the status line depending on the warnings instead of the errors
report_onWarnings(errs, warns) ==
    [i \in 1..Len(errs) |-> Printed("ERROR", errs[i])]
    \o (IF warns = <<>> THEN <<Printed("OK", Verified)>> ELSE <<>>)
    \o [i \in 1..Len(warns) |-> Printed("WARN", warns[i])]

\* verify.py:356-366
report(errs, warns) ==
    [i \in 1..Len(errs) |-> Printed("ERROR", errs[i])]
    \o (IF errs = <<>>
        THEN IF warns # <<>> THEN <<Printed("WARN", VerifiedWithWarnings)>>
             ELSE <<Printed("OK", Verified)>>
        ELSE <<>>)
    \o [i \in 1..Len(warns) |-> Printed("WARN", warns[i])]

\* the orders a set can be iterated in
Orders(S) == {f \in [1..Cardinality(S) -> S] : Range(f) = S}

-----------------------------------------------------------------------------
(* verify() *)

VerifyProblem ==
    /\ pc = "problem"
    /\ namespace' = "problem.json"
    /\ \E r \in {verify_problem("problem.json")} :
           /\ problem' = r.problem
           /\ errors' = errors \o r.errs
           /\ warnings' = warnings \o r.warns
           /\ pc' = IF r.raised THEN "aborted" ELSE "subtasks"
    /\ UNCHANGED <<fs, env, out, subtasks, solutions>>

VerifySubtasks ==
    /\ pc = "subtasks"
    /\ namespace' = "subtasks.json"
    /\ \E r \in {verify_subtasks("subtasks.json")} :
           /\ subtasks' = r.subtasks
           /\ errors' = errors \o r.errs
           /\ \E order \in Orders(r.unused) :
                warnings' = warnings \o
                    [i \in 1..Len(order) |->
                        Diag("subtasks.json", "Unused validator file", <<order[i]>>, 0)]
           /\ pc' = IF r.raised THEN "aborted" ELSE "solutions"
    /\ UNCHANGED <<fs, env, out, problem, solutions>>

VerifySolutions ==
    /\ pc = "solutions"
    /\ namespace' = "solutions.json"
    /\ \E r \in {verify_solutions("solutions.json", subtasks)} :
           /\ solutions' = r.solutions
           /\ \E order \in Orders(r.unrepresented) :
                errors' = errors \o r.errs \o
                    [i \in 1..Len(order) |->
                        Diag("solutions.json", "is not represented", <<order[i]>>, 0)]
           /\ pc' = IF r.raised THEN "aborted" ELSE "existence"
    /\ UNCHANGED <<fs, env, out, warnings, problem, subtasks>>

VerifyExistence ==
    /\ pc = "existence"
    /\ namespace' = "not found"
    /\ errors' = errors
                 \o verify_existence("not found", necessary_files)
                 \o (IF env.HAS_GRADER = "true"
                     THEN verify_existence("not found", grader_necessary_files) ELSE <<>>)
                 \o (IF env.HAS_MANAGER = "true"
                     THEN verify_existence("not found", manager_necessary_files) ELSE <<>>)
    /\ pc' = "report"
    /\ UNCHANGED <<fs, env, out, warnings, problem, subtasks, solutions>>

Report ==
    /\ pc = "report"
    /\ out' = out \o report(errors, warnings)
    /\ pc' = "done"
    /\ UNCHANGED <<fs, env, namespace, errors, warnings, problem, subtasks, solutions>>

Next == VerifyProblem \/ VerifySubtasks \/ VerifySolutions \/ VerifyExistence \/ Report

-----------------------------------------------------------------------------
(* Packages: the inputs of a run *)

MaxDup == 2         \* pairs written on top of a well-formed document
MaxSubtasks == 2    \* subtasks other than samples
MaxSens == 2        \* entries of subtask_sensitive_validators
MaxSolutions == 2   \* pairs of solutions.json

SeqsUpTo(S, n) == UNION {[1..m -> S] : m \in 0..n}
Text(word) == JStr(<<word>>)
OkFile(doc) == [status |-> "ok", doc |-> doc]
MissingFile == [status |-> "missing", doc |-> NoneV]
InvalidFile == [status |-> "invalid", doc |-> NoneV]

ProblemPairs(type) ==
    <<KV("name", Text("prob")), KV("title", Text("Sum")), KV("type", Text(type)),
      KV("time_limit", JFloat(10)), KV("memory_limit", JInt(256))>>
GoodStatement == [exists |-> TRUE, lines |-> << <<" ">>, <<"#", " ", "Sum">> >>]

Subtask(index, score) == JDict(<<KV("index", JInt(index)), KV("score", JInt(score))>>)
Cmd(file, field) == JStr(<<file, " ", field>>)
SubtasksPairs ==
    <<KV("samples", Subtask(0, 0)),
      KV("a", JDict(<<KV("index", JInt(1)), KV("score", JInt(40)),
                      KV("validators", JList(<<Text("v.cpp")>>))>>)),
      KV("b", Subtask(2, 60))>>
SubtasksDoc(pairs) ==
    JDict(<<KV("global_validators", JList(<<Text("w.py")>>)), KV("subtasks", JDict(pairs))>>)

Solution(verdict) == JDict(<<KV("verdict", Text(verdict))>>)
SolutionsPairs == <<KV("a.cpp", Solution("model_solution")), KV("b.cpp", Solution("correct"))>>

AllFiles ==
    Range(necessary_files) \cup Range(grader_necessary_files) \cup Range(manager_necessary_files)

\* a package verify.py accepts, and an environment that skips the git lookup
GoodFs ==
    [problemJson |-> OkFile(JDict(ProblemPairs("Batch"))),
     statement |-> GoodStatement,
     subtasksJson |-> OkFile(SubtasksDoc(SubtasksPairs)),
     validatorDir |-> {"v.cpp", "w.py", "testlib.h", "Makefile", "old.exe"},
     solutionsJson |-> OkFile(JDict(SolutionsPairs)),
     solutionDir |-> {"a.cpp", "b.cpp", "sol.cpp~"},
     present |-> AllFiles]
GoodEnv == [WEB_TERMINAL |-> "true", HAS_GRADER |-> "none", HAS_MANAGER |-> "none",
            git |-> "prob.git"]

\* verify.py:46-48 and the start of verify()
Start(f, e) ==
    /\ fs = f
    /\ env = e
    /\ pc = "problem"
    /\ namespace = ""
    /\ errors = <<>>
    /\ warnings = <<>>
    /\ out = <<>>
    /\ problem = NoneV
    /\ subtasks = NoneV
    /\ solutions = NoneV

(* Spec: every stage meets a file that loads and one that does not *)

ProblemFiles ==
    {MissingFile, InvalidFile,
     OkFile(JDict(ProblemPairs("Batch"))),
     OkFile(JDict(ProblemPairs("Batch") \o <<KV("name", JInt(1))>>)),
     OkFile(JDict(<<KV("has_grader", JBool(TRUE)), KV("has_manager", JBool(TRUE))>>
                  \o ProblemPairs("OutputOnly"))),
     OkFile(JDict(<<KV("has_manager", JBool(FALSE)), KV("has_grader", JInt(1))>>
                  \o ProblemPairs("Communication"))),
     OkFile(JDict(<<KV("name", JInt(1)), KV("title", JInt(1)), KV("type", Text("Quiz")),
                    KV("time_limit", JInt(2)), KV("memory_limit", JInt(100)),
                    KV("has_manager", JInt(0))>>)),
     OkFile(JDict(<<KV("name", Text("prob")), KV("title", Text("Sum"))>>))}
Statements ==
    {GoodStatement, [exists |-> FALSE, lines |-> <<>>], [exists |-> TRUE, lines |-> << <<" ">> >>],
     [exists |-> TRUE, lines |-> << <<"Sum">> >>],
     [exists |-> TRUE, lines |-> << <<" ", "#", "#", " ", "Max", " ">> >>]}
SubtasksFiles ==
    {MissingFile,
     OkFile(SubtasksDoc(SubtasksPairs)),
     OkFile(SubtasksDoc(<<KV("a", Subtask(1, 60)), KV("b", Subtask(3, 30))>>)),
     OkFile(JDict(<<KV("subtasks", JDict(SubtasksPairs))>>)),
     OkFile(JDict(<<KV("subtask_sensitive_validators", JList(<<Cmd("v.cpp", "{}")>>)),
                    KV("subtasks", JDict(SubtasksPairs))>>))}
SolutionsFiles ==
    {InvalidFile,
     OkFile(JDict(SolutionsPairs)),
     OkFile(JDict(<<KV("a.cpp", Solution("model_solution")),
                    KV("b.cpp", JDict(<<KV("verdict", Text("model_solution")),
                                        KV("except", JDict(<<KV("a", Text("failed")),
                                                             KV("z", Text("failed")),
                                                             KV("b", Text("slow"))>>))>>))>>)),
     OkFile(JDict(<<KV("b.cpp", JDict(<<KV("verdict", Text("correct")),
                                        KV("except", JInt(0))>>)),
                    KV("c.cpp", JInt(0))>>))}
Envs ==
    {[WEB_TERMINAL |-> w, git |-> g, HAS_GRADER |-> h, HAS_MANAGER |-> h] :
        w \in {"none", "true"}, g \in {"fail", "prob.git", "other.git", "prob"},
        h \in {"none", "true"}}

Init ==
    \E p \in ProblemFiles, st \in Statements, sub \in SubtasksFiles, sol \in SolutionsFiles,
       e \in Envs, gone \in {{}, {"checker/checker.cpp", "grader/manager.cpp"}} :
        /\ st # GoodStatement => (sub = OkFile(SubtasksDoc(SubtasksPairs)) /\ gone = {})
        /\ Start([GoodFs EXCEPT !.problemJson = p, !.statement = st, !.subtasksJson = sub,
                                !.solutionsJson = sol, !.present = AllFiles \ gone], e)

Spec == Init /\ [][Next]_vars

(* SpecLoad: each document in turn, with pairs written before and after those of
   a well-formed one *)

Stacked(base, extras) ==
    {pre \o base \o post : <<pre, post>> \in
        {pp \in SeqsUpTo(extras, MaxDup) \X SeqsUpTo(extras, MaxDup) :
            Len(pp[1]) + Len(pp[2]) <= MaxDup}}

ProblemDocs ==
    UNION {Stacked(base, {KV("name", JInt(1)), KV("title", Text("Max")),
                          KV("memory_limit", JInt(100))}) :
           base \in {ProblemPairs("Batch"), SubSeq(ProblemPairs("Batch"), 1, 2)}}
SubtasksDocs ==
    UNION {Stacked(<<KV("global_validators", JList(<<Text("w.py")>>)), KV("subtasks", JDict(names))>>,
                   {KV("subtasks", JDict(<<KV("a", Subtask(1, 100))>>)),
                    KV("global_validators", JList(<<Text("gone.cpp")>>)),
                    KV("subtask_sensitive_validators", JList(<<Text("v.cpp")>>))}) :
           names \in {SubtasksPairs, SubtasksPairs \o <<KV("a", Subtask(3, 5)), KV("b", Subtask(3, 5))>>}}
SolutionsDocs ==
    UNION {Stacked(base, {KV("a.cpp", Solution("correct")), KV("b.cpp", Solution("model_solution")),
                          KV("c.cpp", Solution("failed"))}) :
           base \in {SolutionsPairs, <<>>}}

InitLoad ==
    \/ \E d \in ProblemDocs : Start([GoodFs EXCEPT !.problemJson = OkFile(JDict(d))], GoodEnv)
    \/ \E d \in SubtasksDocs : Start([GoodFs EXCEPT !.subtasksJson = OkFile(JDict(d))], GoodEnv)
    \/ \E d \in SolutionsDocs : Start([GoodFs EXCEPT !.solutionsJson = OkFile(JDict(d))], GoodEnv)

SpecLoad == InitLoad /\ [][Next]_vars

(* SpecSubtasks: the subtasks of subtasks.json, then its validator lists *)

SubtaskName(i) == <<"a", "b", "c", "d">>[i]
Absent == NoneV
SubtaskPool ==
    {Subtask(i, score) : i \in {1, 2}, score \in {-10, 0, 30, 40, 60}}
    \cup {JDict(<<KV("score", JInt(40)), KV("validators", JList(<<Text("v.cpp")>>))>>),
          JDict(<<KV("index", JInt(1))>>),
          JDict(<<KV("index", JInt(2)), KV("score", Text("x"))>>),
          JInt(7)}
SamplesPool == {Subtask(0, 0), Subtask(0, 40), Subtask(1, -10)}
\* the pairs of the entries that are there, samples first
Written(samples, others) ==
    (IF samples = Absent THEN <<>> ELSE <<KV("samples", samples)>>)
    \o Concat([i \in 1..MaxSubtasks |->
                  IF others[i] = Absent THEN <<>> ELSE <<KV(SubtaskName(i), others[i])>>])
ScoreDocs ==
    {SubtasksDoc(Written(samples, others)) :
        samples \in SamplesPool \cup {Absent},
        others \in [1..MaxSubtasks -> SubtaskPool \cup {Absent}]}

SensPool ==
    {Cmd("v.cpp", "{subtask}"), Text("v.cpp"), Cmd("w.py", "{other}"), Cmd("v.cpp", "{}"),
     Text("{"), JInt(5), Cmd("gone.cpp", "{{subtask}}")}
ValidatorDocs ==
    {JDict(glob \o sens \o <<KV("subtasks", JDict(SubtasksPairs))>>) :
        glob \in {<<>>} \cup {<<KV(k_glob, v)>> :
                    v \in {JList(<<Text("w.py")>>), JList(<<Cmd("val", "--group"), JInt(0)>>),
                           JList(<<Text("gone.cpp")>>), JInt(0)}},
        sens \in {<<>>, <<KV(k_sub, JInt(0))>>}
                 \cup {<<KV(k_sub, JList(entries))>> : entries \in SeqsUpTo(SensPool, MaxSens)}}

InitSubtasks ==
    \E doc \in ScoreDocs \cup ValidatorDocs, type \in {"Batch", "OutputOnly"} :
        Start([GoodFs EXCEPT !.problemJson = OkFile(JDict(ProblemPairs(type))),
                             !.subtasksJson = OkFile(doc)], GoodEnv)

SpecSubtasks == InitSubtasks /\ [][Next]_vars

(* SpecSolutions: the pairs of solutions.json and the files of solution/ *)

SolutionPool ==
    {Solution("model_solution"), Solution("correct"), Solution("slow"), JDict(<<>>), JInt(0)}
SolutionDirs == {{"a.cpp", "b.cpp", "sol.cpp~"}, {"a.cpp", "Main.class"}, {"a.cpp", "b.cpp", "c.cpp"}}

InitSolutions ==
    \E pairs \in SeqsUpTo({KV(name, data) : name \in {"a.cpp", "b.cpp", "c.cpp"},
                                             data \in SolutionPool}, MaxSolutions),
       dir \in SolutionDirs :
        Start([GoodFs EXCEPT !.solutionsJson = OkFile(JDict(pairs)), !.solutionDir = dir],
              GoodEnv)

SpecSolutions == InitSolutions /\ [][Next]_vars

-----------------------------------------------------------------------------
(* What the properties speak of *)

\* the stages that have run to their end
ProblemDone == pc \in {"subtasks", "solutions", "existence", "report", "done"}
SubtasksDone == pc \in {"solutions", "existence", "report", "done"}
SolutionsDone == pc \in {"existence", "report", "done"}

\* the errors and warnings one stage recorded
ErrorsOf(ns) == SelectSeq(errors, LAMBDA d : d.ns = ns)
WarningsOf(ns) == SelectSeq(warnings, LAMBDA d : d.ns = ns)
Count(ds, msg, arg) == Len(SelectSeq(ds, LAMBDA d : d.msg = msg /\ d.arg = arg))

\* the times key is written in an object after it was written there already, in
\* the document and every object in it
RECURSIVE Repeats(_, _)
Repeats(raw, key) ==
    IF IsDict(raw)
    THEN LET own == Cardinality({i \in 1..Len(raw.items) : raw.items[i].k = key})
         IN  (IF own > 1 THEN own - 1 ELSE 0)
             + SumSeq([i \in 1..Len(raw.items) |-> Repeats(raw.items[i].v, key)])
    ELSE IF IsList(raw)
    THEN SumSeq([i \in 1..Len(raw.items) |-> Repeats(raw.items[i], key)])
    ELSE 0
RECURSIVE AllKeys(_)
AllKeys(raw) ==
    IF IsDict(raw)
    THEN KeySet(raw) \cup UNION {AllKeys(raw.items[i].v) : i \in 1..Len(raw.items)}
    ELSE IF IsList(raw) THEN UNION {AllKeys(raw.items[i]) : i \in 1..Len(raw.items)}
    ELSE {}
HasRepeat(raw) == \E key \in AllKeys(raw) : Repeats(raw, key) > 0
\* the value written first for key in an object
First(raw, key) ==
    raw.items[CHOOSE i \in 1..Len(raw.items) :
                 /\ raw.items[i].k = key
                 /\ \A j \in 1..(i - 1) : raw.items[j].k # key].v
DuplicatesReported(ns, raw) ==
    \A key \in AllKeys(raw) : Count(ErrorsOf(ns), "duplicate key", <<key>>) = Repeats(raw, key)

-----------------------------------------------------------------------------
(* C1 *)

-----------------------------------------------------------------------------
(* C2 *)

\* C2, as claimed: whatever loaded and whatever did not, every stage ends
\* normally; here, verify_subtasks when problem.json did not load and
\* subtasks.json holds no subtask-sensitive validator
C2_SubtasksEndsWithoutProblem ==
    (/\ namespace = "subtasks.json"
     /\ problem = NoneV
     /\ ~HasKey(fs.subtasksJson.doc, k_sub)) => pc # "aborted"

-----------------------------------------------------------------------------
(* C3, C4, C7, C10: verify_subtasks *)

\* the checks of verify_subtasks ran to completion
SubtasksChecked == SubtasksDone /\ subtasks # NoneV
\* the subtasks as written, and the entry of one
SubtasksWritten == First(fs.subtasksJson.doc, "subtasks")
\* an entry verify.py:236-243 does not skip
HasIndexAndScore(data) == IsDict(data) /\ HasKey(data, "index") /\ HasKey(data, "score")
\* the names of the subtasks other than samples whose score is an integer
Scored(pred(_)) ==
    {name \in KeySet(SubtasksWritten) \ {"samples"} :
        LET data == First(SubtasksWritten, name)
        IN  IsDict(data) /\ HasKey(data, "score") /\ Get(data, "score").t = "int" /\ pred(data)}
RECURSIVE SumScores(_)
SumScores(names) ==
    IF names = {} THEN 0
    ELSE LET name == CHOOSE x \in names : TRUE
         IN  Get(First(SubtasksWritten, name), "score").n + SumScores(names \ {name})
\* the sum of the scores of all subtasks other than samples
SumOfAllScores == SumScores(Scored(LAMBDA data : TRUE))
\* the sum of the scores verify_subtasks accepts: those of the entries with an
\* index and a non-negative integer score
SumOfAcceptedScores ==
    SumScores(Scored(LAMBDA data : HasKey(data, "index") /\ Get(data, "score").n >= 0))
SumErrors == WithMsg(ErrorsOf("subtasks.json"), "sum of scores is")
SamplesErrors == WithMsg(ErrorsOf("subtasks.json"), "samples subtask score is non-zero")
SamplesScoreIsCounted ==
    /\ HasKey(SubtasksWritten, "samples")
    /\ HasIndexAndScore(First(SubtasksWritten, "samples"))
    /\ IsInt(Get(First(SubtasksWritten, "samples"), "score"))
    /\ Get(First(SubtasksWritten, "samples"), "score").n >= 0

\* C3, as claimed: every 'missing index' error names an index that is missing
\* from the set of the subtasks' indexes
C3_MissingIndexErrorNamesMissingIndex ==
    SubtasksChecked =>
       \A j \in DOMAIN errors :
          errors[j].msg = "missing index in subtask indexes" =>
             ~\E name \in KeySet(SubtasksWritten) :
                 /\ HasIndexAndScore(First(SubtasksWritten, name))
                 /\ Get(First(SubtasksWritten, name), "index") = JInt(errors[j].num)

\* C4, as claimed: 'sum of scores is S' is recorded exactly when the sum S of
\* the scores of all subtasks other than samples is not 100, and reports S
C4_SumErrorIffAllScoresNot100 ==
    SubtasksChecked =>
       /\ Len(SumErrors) = IF SumOfAllScores # 100 THEN 1 ELSE 0
       /\ \A j \in DOMAIN SumErrors : SumErrors[j].num = SumOfAllScores

\* C4, amended: 'sum of scores is S' is recorded exactly when S is not 100, for
\* S the sum of the scores of the subtasks other than samples that have an index
\* and a score that is a non-negative integer; an entry without index or score,
\* or with another score, has its own error and adds nothing to S. samples adds
\* nothing to S either, and has its own error when its score is accepted and
\* not zero
C4_SumErrorIffAcceptedScoresNot100 ==
    SubtasksChecked =>
       /\ Len(SumErrors) = IF SumOfAcceptedScores # 100 THEN 1 ELSE 0
       /\ \A j \in DOMAIN SumErrors : SumErrors[j].num = SumOfAcceptedScores
       /\ Len(SamplesErrors) =
             IF SamplesScoreIsCounted /\ Get(First(SubtasksWritten, "samples"), "score").n # 0
             THEN 1 ELSE 0
       /\ \A name \in Scored(LAMBDA data : ~HasKey(data, "index")) :
             Count(ErrorsOf("subtasks.json"), "is required in", <<"index", name>>) = 1
       /\ \A name \in Scored(LAMBDA data : HasKey(data, "index") /\ Get(data, "score").n < 0) :
             Count(ErrorsOf("subtasks.json"),
                   "score should be a non-negative integer in subtask", <<name>>) = 1

\* C4: scores 60 and 30 and a samples subtask of score 40: 'sum of scores is 90'
\* and the error of samples
C4_Witness ==
    /\ SubtasksChecked
    /\ Len(SumErrors) = 1
    /\ SumErrors[1].num = 90
    /\ Len(SamplesErrors) = 1

\* the entries of a validator list as written
ListEntries(parent, key) ==
    IF IsDict(parent) /\ HasKey(parent, key) /\ IsList(First(parent, key))
    THEN Range(First(parent, key).items) ELSE {}
\* file is the first word of an entry of global_validators, of
\* subtask_sensitive_validators or of the validators of a subtask
Referenced(file) ==
    \E entry \in ListEntries(fs.subtasksJson.doc, k_glob)
                 \cup ListEntries(fs.subtasksJson.doc, k_sub)
                 \cup UNION {ListEntries(First(SubtasksWritten, name), "validators") :
                                name \in KeySet(SubtasksWritten)} :
        IsStr(entry) /\ FirstWord(entry.s) = <<file>>

\* C7, as claimed: whatever the entries of subtask_sensitive_validators, the
\* placeholder check does not end the run
C7_PlaceholderCheckNeverAborts ==
    (/\ namespace = "subtasks.json"
     /\ problem # NoneV
     /\ HasKey(fs.subtasksJson.doc, k_sub) => IsList(First(fs.subtasksJson.doc, k_sub)))
    => pc # "aborted"

\* C10, as claimed: a validator file has an 'Unused validator file' warning
\* exactly when no validator list has it as the first word of an entry
C10_UnusedIffNotReferenced ==
    SubtasksChecked =>
       \A file \in fs.validatorDir \ {"testlib.h", "Makefile"} :
          ~is_ignored(file) =>
             Count(WarningsOf("subtasks.json"), "Unused validator file", <<file>>) =
                IF Referenced(file) THEN 0 ELSE 1

-----------------------------------------------------------------------------
(* C5, C8: verify_solutions *)

\* the checks of verify_solutions ran to completion
SolutionsChecked == SolutionsDone /\ solutions # NoneV /\ subtasks # NoneV
SolutionErrors == ErrorsOf("solutions.json")
\* the files of solution/ that are not ignored
OnDisk == {file \in fs.solutionDir : ~is_ignored(file)}
\* the entries of solutions.json that carry the verdict model_solution
ModelEntries ==
    {key \in KeySet(fs.solutionsJson.doc) :
        LET data == First(fs.solutionsJson.doc, key)
        IN  IsDict(data) /\ HasKey(data, "verdict")
            /\ First(data, "verdict") = Text(model_solution_verdict)}
NoModelErrors == CountMsg(SolutionErrors, "there is no model solution")
SecondModelErrors == CountMsg(SolutionErrors, "there is more than one model solutions")
FileSetErrors ==
    CountMsg(SolutionErrors, "does not exists") + CountMsg(SolutionErrors, "is not represented")
ModelSolutionCounted(k) ==
    /\ k = 0 => (NoModelErrors = 1 /\ SecondModelErrors = 0)
    /\ k > 1 => (NoModelErrors = 0 /\ SecondModelErrors = k - 1)
    /\ k = 1 => (NoModelErrors = 0 /\ SecondModelErrors = 0)
    /\ (k = 1 /\ KeySet(fs.solutionsJson.doc) = OnDisk) => FileSetErrors = 0

\* C5, as claimed: with k the number of entries of solutions.json that carry
\* the verdict model_solution, k = 0 gives one 'no model solution' error, k > 1
\* gives k - 1 'more than one' errors, k = 1 gives neither
C5_ModelSolutionsAmongAllEntries ==
    SolutionsChecked => ModelSolutionCounted(Cardinality(ModelEntries))

\* C5, amended: the same, with k the number of entries that carry the verdict
\* model_solution and name a file of solution/: an entry that names no such
\* file is not counted
C5_ModelSolutionsAmongEntriesOnDisk ==
    SolutionsChecked => ModelSolutionCounted(Cardinality(ModelEntries \cap OnDisk))

\* C5: two entries carry model_solution, one of them for a file that is not in
\* solution/, and there is no 'more than one' error
C5_Witness ==
    /\ SolutionsChecked
    /\ Cardinality(ModelEntries) = 2
    /\ Cardinality(ModelEntries \cap OnDisk) = 1
    /\ SecondModelErrors = 0
    /\ NoModelErrors = 0

\* C8: one 'does not exists' error for each key that is no file of solution/,
\* one 'is not represented' error for each file of solution/ that is no key,
\* the ignored files apart, and no other; a key that is no file has no other
\* error than that one and those of the load
C8_KeysAgainstFiles ==
    SolutionsChecked =>
       LET keys == KeySet(fs.solutionsJson.doc)
       IN  /\ \A key \in keys :
                 Count(SolutionErrors, "does not exists", <<key>>) =
                    IF key \in OnDisk THEN 0 ELSE 1
           /\ \A file \in fs.solutionDir :
                 Count(SolutionErrors, "is not represented", <<file>>) =
                    IF file \in OnDisk \ keys THEN 1 ELSE 0
           /\ CountMsg(SolutionErrors, "does not exists") = Cardinality(keys \ OnDisk)
           /\ CountMsg(SolutionErrors, "is not represented") = Cardinality(OnDisk \ keys)
           /\ \A key \in keys \ OnDisk :
                 \A j \in DOMAIN SolutionErrors :
                    key \in Range(SolutionErrors[j].arg) =>
                       SolutionErrors[j].msg \in {"does not exists", "duplicate key"}

\* C8: a key without verdict that is no file of solution/, a file of solution/
\* that is no key, and an ignored file
C8_Witness ==
    /\ SolutionsChecked
    /\ \E key \in KeySet(fs.solutionsJson.doc) \ OnDisk :
          First(fs.solutionsJson.doc, key) = JDict(<<>>)
    /\ OnDisk \ KeySet(fs.solutionsJson.doc) # {}
    /\ fs.solutionDir # OnDisk
    /\ FileSetErrors = 2

-----------------------------------------------------------------------------
(* C6 *)

StatusLines == {i \in 1..Len(out) : out[i].text \in {Verified, VerifiedWithWarnings}}
Texts(lines) == [i \in 1..Len(lines) |-> lines[i].text]

\* C6: once the report is printed, there is a success line exactly when there
\* is no error, it says "verified." exactly when there is no warning either,
\* the errors are printed first and all of them, the warnings last and all of
\* them, with or without errors
C6_ReportSuccessIffNoErrors ==
    pc = "done" =>
       /\ StatusLines # {} <=> errors = <<>>
       /\ Cardinality(StatusLines) <= 1
       /\ \A i \in StatusLines :
             out[i] = IF warnings = <<>> THEN Printed("OK", Verified)
                      ELSE Printed("WARN", VerifiedWithWarnings)
       /\ Texts(SubSeq(out, 1, Len(errors))) = errors
       /\ \A i \in 1..Len(errors) : out[i].color = "ERROR"
       /\ StatusLines \subseteq {Len(errors) + 1}
       /\ Texts(SubSeq(out, Len(out) - Len(warnings) + 1, Len(out))) = warnings
       /\ \A i \in (Len(out) - Len(warnings) + 1)..Len(out) : out[i].color = "WARN"
       /\ Len(out) = Len(errors) + Cardinality(StatusLines) + Len(warnings)

\* C6: a run without errors and with warnings has been reported
C6_Witness ==
    /\ pc = "done"
    /\ errors = <<>>
    /\ warnings # <<>>
    /\ out[1] = Printed("WARN", VerifiedWithWarnings)

-----------------------------------------------------------------------------
(* C9 *)

\* C9, as claimed: the git lookup is best effort, so that verify_problem never
\* ends the run
C9_ProblemStageNeverAborts == namespace = "problem.json" => pc # "aborted"

====
